---------------------------- MODULE Spec2Model ----------------------------
(***************************************************************************)
(* The MCP + Gemini tool-calling clients of mcp-toolkit:                   *)
(*   src/integrate-with-llm/client-gemini.py   (MCPGeminiClient, main)     *)
(*   src/github-mcp/client-gemini-github.py    (GitHubMCPGeminiClient,     *)
(*                                              main)                      *)
(* The two classes have the same connect / get_gemini_tools /              *)
(* process_query / cleanup bodies; they differ in their main().  One       *)
(* client object is modelled, driven by one of three callers: the main()   *)
(* of client-gemini.py, the main() of client-gemini-github.py, or a        *)
(* caller that awaits the public methods in any order ("api").             *)
(*                                                                         *)
(* The Tool Provider (MCP server) and the completion backend (Gemini) are  *)
(* external: every request to them either raises or returns a value drawn  *)
(* from a small set.                                                       *)
(***************************************************************************)
EXTENDS Naturals, Sequences, FiniteSets

VARIABLES
    driver,       \* which caller drives the client: "gemini", "github", "api"
    mainPc,       \* position of the caller
    qi,           \* index of the query main() is at (github main's for loop)
    exit_stack,   \* self.exit_stack: ids of the entered contexts, last on top
    session,      \* self.session: None, or the id of a ClientSession
    opened,       \* kind of every context ever entered, indexed by id
    relCount,     \* how many times each context was exited, indexed by id
    initialized,  \* ids of the sessions whose initialize() has returned
    pc,           \* position inside process_query
    query,        \* process_query's argument
    listed,       \* tools_result.tools of this query's list_tools
    listCount,    \* list_tools requests this query has sent
    tools,        \* function declarations built by get_gemini_tools
    response,     \* response.candidates[0].content.parts of completion #1
    idx,          \* position of the for loop over parts
    tool_parts,   \* tool_parts
    tool_called,  \* tool_called
    calls,        \* call_tool requests this query has sent, in order
    completions,  \* generate_content requests this query has sent, in order
    outcome,      \* how the last process_query ended
    lastReq,      \* the last list_tools / call_tool request put on a session
    \* weather_server.py, one call of get_current_weather / get_forecast
    API_KEY,      \* API_KEY, read from the environment at import
    wtool,        \* the tool called
    city,         \* its city argument
    units,        \* its units argument
    wpc,          \* position of the call
    http_requests,\* the HTTP requests the call has sent
    wresult       \* what the call returned, or the exception that left it

weatherVars == << API_KEY, wtool, city, units, wpc, http_requests, wresult >>

vars == << driver, mainPc, qi, exit_stack, session, opened, relCount,
           initialized, pc, query, listed, listCount, tools, response, idx,
           tool_parts, tool_called, calls, completions, outcome, lastReq,
           weatherVars >>

lifecycleVars == << exit_stack, session, opened, relCount, initialized >>
queryVars == << pc, query, listed, listCount, tools, response, idx,
                tool_parts, tool_called, calls, completions, outcome >>

-----------------------------------------------------------------------------
(* Bounds of the model *)

\* connect calls the "api" caller may make on the one client object
MaxConnects == 2
\* longest tool list the provider returns
MaxTools == 2
\* most parts in a completion response
MaxParts == 2

-----------------------------------------------------------------------------
(* Values *)

None == 0

ToolNames == {"add", "sub"}

\* Tool descriptors the provider may advertise (tool.name, tool.description,
\* tool.inputSchema).  A list may hold the same descriptor more than once.
ToolDescriptors ==
    { [name |-> "add", description |-> "d1", inputSchema |-> "s1"],
      [name |-> "sub", description |-> "d2", inputSchema |-> "s2"] }

SeqsUpTo(S, n) == UNION { [1..k -> S] : k \in 0..n }

Catalogs == SeqsUpTo(ToolDescriptors, MaxTools)

\* A response part is tagged text or function_call.
TextPart == [kind |-> "text", text |-> "hello", name |-> "", args |-> ""]
FunctionCallPart(n) ==
    [kind |-> "function_call", text |-> "", name |-> n, args |-> "args"]
Parts == {TextPart} \cup { FunctionCallPart(n) : n \in ToolNames }
Responses == SeqsUpTo(Parts, MaxParts)

Queries == <<"q1", "q2">>

NoReq == [op |-> "none", sess |-> None, name |-> "",
          initialized |-> FALSE, released |-> FALSE]
\* how process_query ended: the text it returned, or the exception that left
\* it and the stage it was raised at
NoOutcome == [kind |-> "none", text |-> <<>>, exc |-> "", stage |-> ""]
Return(t) == [kind |-> "return", text |-> t, exc |-> "", stage |-> ""]
Raise(e, st) == [kind |-> "raise", text |-> <<>>, exc |-> e, stage |-> st]

-----------------------------------------------------------------------------
(* Session lifecycle *)

\* what aclose() leaves of the stack: every callback is popped
AcloseNoPop(stack) == stack
Aclose(stack) == <<>>

\* AsyncExitStack.aclose(): exit every entered context, last entered first
ReleaseAll(stack, counts) ==
    [i \in DOMAIN counts |->
        counts[i] + Cardinality({k \in DOMAIN stack : stack[k] = i})]

IsReleased(id) == id # None /\ relCount[id] > 0

\* who may call what: main() calls in program order, "api" in any order
CanCall(op) == pc = "idle" /\ (driver = "api" \/ mainPc = op)

\* where main() goes after connect returned / raised
\* ("raised_connect": main() ended by the exception connect raised)
AfterConnect(ok) ==
    CASE driver = "api" -> "api"
      [] ok             -> "query"
      [] OTHER          -> "raised_connect"

\* where main() goes after cleanup
AfterCleanup == IF driver = "api" THEN "api" ELSE "exit"

\* connect_to_server / connect_to_github_mcp
\*   "spawn_fail":  stdio_client(...) raised on enter, nothing was entered
\*   "enter_fail":  the transport is on the stack, ClientSession enter raised
\*   "init_fail":   both on the stack, self.session set, initialize() raised
\*   "list_fail":   initialize() returned, list_tools() raised
\*   "ok":          list_tools() returned and the tools were printed
ConnectOutcomes == {"spawn_fail", "enter_fail", "init_fail", "list_fail", "ok"}

connect_to_server(o) ==
    /\ CanCall("connect")
    /\ Len(opened) + 2 <= 2 * MaxConnects
    /\ LET t == Len(opened) + 1
           s == Len(opened) + 2
       IN
       CASE o = "spawn_fail" ->
              /\ UNCHANGED << lifecycleVars, lastReq >>
         [] o = "enter_fail" ->
              /\ opened' = opened \o <<"transport">>
              /\ relCount' = relCount \o <<0>>
              /\ exit_stack' = exit_stack \o <<t>>
              /\ UNCHANGED << session, initialized, lastReq >>
         [] OTHER ->
              /\ opened' = opened \o <<"transport", "session">>
              /\ relCount' = relCount \o <<0, 0>>
              /\ exit_stack' = exit_stack \o <<t, s>>
              /\ session' = s
              /\ initialized' =
                    IF o = "init_fail" THEN initialized
                    ELSE initialized \cup {s}
              /\ lastReq' =
                    IF o = "init_fail" THEN lastReq
                    ELSE [op |-> "list_tools", sess |-> s, name |-> "",
                          initialized |-> s \in initialized',
                          released |-> FALSE]
    /\ mainPc' = AfterConnect(o = "ok")
    /\ UNCHANGED << weatherVars, driver, qi, queryVars >>

\* cleanup: await self.exit_stack.aclose()
cleanup ==
    /\ CanCall("cleanup")
    /\ relCount' = ReleaseAll(exit_stack, relCount)
    /\ exit_stack' = Aclose(exit_stack)
    /\ mainPc' = AfterCleanup
    /\ UNCHANGED << weatherVars, driver, qi, session, opened, initialized, queryVars,
                    lastReq >>

-----------------------------------------------------------------------------
(* Tool catalog adapter *)

\* types.FunctionDeclaration(name=tool.name, description=tool.description,
\*                           parameters=tool.inputSchema)
FunctionDeclaration(tool) ==
    [name |-> tool.name, description |-> tool.description,
     parameters |-> tool.inputSchema]

\* the list comprehension of get_gemini_tools, wrapped in one types.Tool
GetGeminiToolsUniqueNames(tools_result) ==
    LET first == { i \in DOMAIN tools_result :
                     \A j \in 1..(i - 1) : tools_result[j].name # tools_result[i].name }
        kept == SelectSeq([i \in DOMAIN tools_result |-> i], LAMBDA i : i \in first)
    IN << [function_declarations |->
             [k \in DOMAIN kept |-> FunctionDeclaration(tools_result[kept[k]])]] >>
GetGeminiTools(tools_result) ==
    << [function_declarations |->
          [i \in 1..Len(tools_result) |-> FunctionDeclaration(tools_result[i])]] >>

-----------------------------------------------------------------------------
(* Orchestration loop: process_query *)

RECURSIVE ConcatText(_)
\* response.text: the texts of the text parts, in order
ConcatText(ps) ==
    IF ps = <<>> THEN <<>>
    ELSE (IF Head(ps).kind = "text" THEN <<Head(ps).text>> ELSE <<>>)
         \o ConcatText(Tail(ps))

\* for part in parts: the part the loop is at
PartAtReversed(ps, i) == ps[Len(ps) + 1 - i]
PartAt(ps, i) == ps[i]

\* if part.function_call:
IsFunctionCall(part) == part.kind = "function_call"

\* if not tool_called: return response.text
ReturnsFirstTextInverted(called) == called
ReturnsFirstText(called) == ~called

\* generate_content #1: contents=query, config with tools and instruction
FirstRequestNoTools(q, ts) ==
    [contents |-> <<q>>, tools |-> <<>>, system_instruction |-> "system"]
FirstRequest(q, ts) ==
    [contents |-> <<q>>, tools |-> ts, system_instruction |-> "system"]

\* types.Part.from_function_response(name=fn_name, response={"result": text})
FunctionResponse(fn_name, text) == [name |-> fn_name, result |-> text]

\* generate_content #2: contents=[query, content, Content(role="tool", ...)],
\* config with the instruction only
FollowupRequestNoModelTurn(q, ps, tps) ==
    [contents |-> << q, [role |-> "tool", parts |-> tps] >>,
     tools |-> <<>>,
     system_instruction |-> "system"]
FollowupRequest(q, ps, tps) ==
    [contents |-> << q,
                     [role |-> "model", parts |-> ps],
                     [role |-> "tool", parts |-> tps] >>,
     tools |-> <<>>,
     system_instruction |-> "system"]

\* where main() goes when process_query returned / raised
\* ("raised_query": main() ended by the exception process_query raised)
AfterQuery(raised) ==
    CASE driver = "api"    -> "api"
      [] driver = "gemini" -> IF raised THEN "raised_query" ELSE "cleanup"
      [] OTHER             -> IF qi < Len(Queries) THEN "query" ELSE "cleanup"

NextQi == IF driver = "github" /\ qi < Len(Queries) THEN qi + 1 ELSE qi

\* process_query leaves by return or by an exception; the caller's await
\* then yields the value or re-raises
Leave(o) ==
    /\ outcome' = o
    /\ pc' = "done"
    /\ UNCHANGED << mainPc, qi >>

ListToolsRequest(s) ==
    [op |-> "list_tools", sess |-> s, name |-> "",
     initialized |-> s \in initialized, released |-> IsReleased(s)]

CallToolRequest(s, fn_name) ==
    [op |-> "call_tool", sess |-> s, name |-> fn_name,
     initialized |-> s \in initialized, released |-> IsReleased(s)]

\* process_query entry and get_gemini_tools: self.session.list_tools()
process_query_list_tools(q) ==
    /\ CanCall("query")
    \* main() of client-gemini.py has one query, main() of
    \* client-gemini-github.py takes them in turn; the client never reads
    \* the text, so the free caller passes the first
    /\ driver \in {"gemini", "api"} => q = Queries[1]
    /\ driver = "github" => q = Queries[qi]
    /\ query' = q
    /\ \/ /\ session = None            \* None has no list_tools
          /\ listCount' = 0
          /\ listed' = <<>>
          /\ tools' = <<>>
          /\ Leave(Raise("AttributeError", "catalog-fetch"))
          /\ UNCHANGED lastReq
       \/ /\ session # None            \* the request raises
          /\ listCount' = 1
          /\ lastReq' = ListToolsRequest(session)
          /\ listed' = <<>>
          /\ tools' = <<>>
          /\ Leave(Raise("McpError", "catalog-fetch"))
       \/ /\ session # None            \* the provider answers
          /\ ~IsReleased(session)
          /\ listCount' = 1
          /\ lastReq' = ListToolsRequest(session)
          /\ \E c \in Catalogs :
                /\ listed' = c
                /\ tools' = GetGeminiTools(c)
          /\ pc' = "completion1"
          /\ UNCHANGED << mainPc, qi, outcome >>
    /\ UNCHANGED << weatherVars, driver, lifecycleVars, response, idx, tool_parts,
                    tool_called, calls, completions >>

\* completion call #1
process_query_first_completion ==
    /\ pc = "completion1"
    /\ completions' = Append(completions, FirstRequest(query, tools))
    /\ \/ /\ Leave(Raise("APIError", "completion-1"))
          /\ UNCHANGED response
       \/ /\ \E r \in Responses : response' = r
          /\ pc' = "scan"
          /\ UNCHANGED << mainPc, qi, outcome >>
    /\ UNCHANGED << weatherVars, driver, lifecycleVars, query, listed, listCount, tools,
                    idx, tool_parts, tool_called, calls, lastReq >>

\* what session.call_tool and result.content[0].text can do
\*   "ok":      a result whose first content item is text
\*   "isError": a result flagged isError whose first content item is text
\*   "empty":   a result with no content item: content[0] raises IndexError
\*   "raise":   call_tool raised
ToolOutcomes == {"ok", "isError", "empty", "raise"}

ResultText(o) == IF o = "ok" THEN "5" ELSE "tool error"

\* one iteration of: for part in parts
process_query_part ==
    /\ pc = "scan"
    /\ idx <= Len(response)
    /\ LET part == PartAt(response, idx) IN
       \/ /\ ~IsFunctionCall(part)
          /\ idx' = idx + 1
          /\ UNCHANGED << pc, mainPc, qi, outcome, tool_called, tool_parts,
                          calls, lastReq >>
       \/ /\ IsFunctionCall(part)
          /\ tool_called' = TRUE
          /\ calls' = Append(calls, [name |-> part.name, args |-> part.args])
          /\ lastReq' = CallToolRequest(session, part.name)
          /\ \E o \in ToolOutcomes :
                CASE o = "raise" ->
                       /\ Leave(Raise("McpError", "tool-dispatch"))
                       /\ UNCHANGED << idx, tool_parts >>
                  [] o = "empty" ->
                       /\ Leave(Raise("IndexError", "tool-dispatch"))
                       /\ UNCHANGED << idx, tool_parts >>
                  [] OTHER ->
                       /\ tool_parts' = Append(tool_parts,
                              FunctionResponse(part.name, ResultText(o)))
                       /\ idx' = idx + 1
                       /\ UNCHANGED << pc, mainPc, qi, outcome >>
    /\ UNCHANGED << weatherVars, driver, lifecycleVars, query, listed, listCount, tools,
                    response, completions >>

\* after the loop: return response.text, or completion call #2
process_query_finish ==
    /\ pc = "scan"
    /\ idx > Len(response)
    /\ \/ /\ ReturnsFirstText(tool_called)
          /\ Leave(Return(ConcatText(response)))
          /\ UNCHANGED completions
       \/ /\ ~ReturnsFirstText(tool_called)
          /\ completions' =
                Append(completions, FollowupRequest(query, response, tool_parts))
          /\ \/ Leave(Raise("APIError", "completion-2"))
             \/ Leave(Return(<<"final answer">>))
    /\ UNCHANGED << weatherVars, driver, lifecycleVars, query, listed, listCount, tools,
                    response, idx, tool_parts, tool_called, calls, lastReq >>

\* the caller's await of process_query completes: main() prints the response
\* (or, in client-gemini-github.py, the caught error) and goes on; an
\* exception that main() of client-gemini.py does not catch ends it.  The
\* locals of process_query are gone.
main_resume ==
    /\ pc = "done"
    /\ pc' = "idle"
    /\ mainPc' = AfterQuery(outcome.kind = "raise")
    /\ qi' = NextQi
    /\ query' = ""
    /\ listed' = <<>>
    /\ listCount' = 0
    /\ tools' = <<>>
    /\ response' = <<>>
    /\ idx' = 1
    /\ tool_parts' = <<>>
    /\ tool_called' = FALSE
    /\ calls' = <<>>
    /\ completions' = <<>>
    /\ outcome' = NoOutcome
    /\ UNCHANGED << weatherVars, driver, lifecycleVars, lastReq >>

-----------------------------------------------------------------------------

-----------------------------------------------------------------------------
(* weather_server.py: get_current_weather and get_forecast *)

\* longest city name and API key
MaxStrLen == 2

\* strings the checks strip: sequences of characters, blank or not
Chars == {" ", "x"}
Strings == SeqsUpTo(Chars, MaxStrLen)

\* units is only compared as a whole
UnitsValues == {"metric", "imperial", "Metric", "kelvin", ""}

WeatherTools == {"get_current_weather", "get_forecast"}

RECURSIVE LStrip(_)
LStrip(str) ==
    IF str # <<>> /\ Head(str) = " " THEN LStrip(Tail(str)) ELSE str

RECURSIVE RStrip(_)
RStrip(str) ==
    IF str # <<>> /\ str[Len(str)] = " "
    THEN RStrip(SubSeq(str, 1, Len(str) - 1))
    ELSE str

\* str.strip()
Strip(str) == RStrip(LStrip(str))

\* a returned str: its fixed text (without the leading marker character) and
\* what is formatted into it
Str(t, a) == [type |-> "str", text |-> t, arg |-> a]
\* an exception in flight
Exc(name, a) == [type |-> "exception", text |-> name, arg |-> a]
NoResult == [type |-> "none", text |-> "", arg |-> <<>>]

\* the three input checks, in the order of lines 138-145 / 178-185; "" when
\* all pass
FirstFailingCheckKeyFirst(c, key, u) ==
    CASE Strip(key) = <<>> ->
           "Error: OPENWEATHER_API_KEY not configured. Please set it in Docker secrets."
      [] Strip(c) = <<>> -> "Error: City name is required"
      [] u \notin {"metric", "imperial"} ->
           "Error: Units must be 'metric' (Celsius) or 'imperial' (Fahrenheit)"
      [] OTHER -> ""
FirstFailingCheck(c, key, u) ==
    CASE Strip(c) = <<>> -> "Error: City name is required"
      [] Strip(key) = <<>> ->
           "Error: OPENWEATHER_API_KEY not configured. Please set it in Docker secrets."
      [] u \notin {"metric", "imperial"} ->
           "Error: Units must be 'metric' (Celsius) or 'imperial' (Fahrenheit)"
      [] OTHER -> ""

\* client.get(f"{BASE_URL}/weather" | "/forecast", params={q, appid, units})
HttpRequest(t, c, key, u) ==
    [path |-> IF t = "get_current_weather" THEN "/weather" ELSE "/forecast",
     q |-> c, appid |-> key, units |-> u]

\* what the HTTP exchange can do:
\*   "network":  client.get raised (connect error, timeout)
\*   a status:   raise_for_status() raises HTTPStatusError unless it is 200
\* and, for 200, what the body is:
\*   "bad_json": response.json() raises
\*   "malformed": JSON the formatter trips over (not a dict, weather: [], ...)
\*   "no_list":  JSON without forecast entries
\*   "full":     JSON with the expected fields
HttpOutcomes == {"network", "200", "401", "404", "500"}
Payloads == {"bad_json", "malformed", "no_list", "full"}

\* format_weather_data / format_forecast_data: every exception inside is
\* caught and turned into an error string
FormatData(t, payload, u) ==
    LET temp_unit == IF u = "metric" THEN "C" ELSE "F" IN
    CASE payload = "malformed" ->
           Str(IF t = "get_current_weather"
               THEN "Error formatting weather data: "
               ELSE "Error formatting forecast data: ", <<"exception text">>)
      [] payload = "no_list" /\ t = "get_forecast" ->
           Str("No forecast data available", <<>>)
      [] t = "get_current_weather" -> Str("weather report", <<temp_unit>>)
      [] OTHER -> Str("5-Day Forecast", <<temp_unit>>)

\* the body of the try block: client.get, raise_for_status, json, format
TryBody(t, o, payload, u) ==
    CASE o = "network" -> Exc("ConnectError", <<>>)
      [] o # "200" -> Exc("HTTPStatusError", <<o>>)
      [] payload = "bad_json" -> Exc("JSONDecodeError", <<>>)
      [] OTHER -> FormatData(t, payload, u)

\* except httpx.HTTPStatusError ... except Exception ...
ExceptStatusErrorOnly(r, c) ==
    CASE r.type # "exception" -> r
      [] r.text = "HTTPStatusError" /\ r.arg = <<"404">> -> Str("City not found: ", c)
      [] r.text = "HTTPStatusError" /\ r.arg = <<"401">> ->
           Str("Invalid API key. Please check your OPENWEATHER_API_KEY.", <<>>)
      [] r.text = "HTTPStatusError" -> Str("API Error: ", r.arg)
      [] OTHER -> r
Except(r, c) ==
    CASE r.type # "exception" -> r
      [] r.text = "HTTPStatusError" /\ r.arg = <<"404">> -> Str("City not found: ", c)
      [] r.text = "HTTPStatusError" /\ r.arg = <<"401">> ->
           Str("Invalid API key. Please check your OPENWEATHER_API_KEY.", <<>>)
      [] r.text = "HTTPStatusError" -> Str("API Error: ", r.arg)
      [] OTHER -> Str("Error: ", <<r.text>>)

\* the call ends: a str is returned, an exception leaves the tool
WeatherEnd(r) ==
    /\ wresult' = r
    /\ wpc' = IF r.type = "str" THEN "returned" ELSE "raised"

clientVars == << driver, mainPc, qi, lifecycleVars, queryVars, lastReq >>

\* the tool is entered: the three checks, then the request is sent
weather_checks ==
    /\ wpc = "called"
    /\ LET failing == FirstFailingCheck(city, API_KEY, units) IN
       IF failing # ""
       THEN /\ WeatherEnd(Str(failing, <<>>))
            /\ UNCHANGED http_requests
       ELSE /\ http_requests' =
                  Append(http_requests, HttpRequest(wtool, city, API_KEY, units))
            /\ wpc' = "requesting"
            /\ UNCHANGED wresult
    /\ UNCHANGED << clientVars, API_KEY, wtool, city, units >>

\* the HTTP exchange ends and the tool returns
weather_response(o, payload) ==
    /\ wpc = "requesting"
    /\ WeatherEnd(Except(TryBody(wtool, o, payload, units), city))
    /\ UNCHANGED << clientVars, API_KEY, wtool, city, units, http_requests >>

-----------------------------------------------------------------------------

\* the client object after __init__, no call of process_query under way
ClientStart ==
    /\ qi = 1
    /\ exit_stack = <<>>
    /\ session = None
    /\ opened = <<>>
    /\ relCount = <<>>
    /\ initialized = {}
    /\ pc = "idle"
    /\ query = ""
    /\ listed = <<>>
    /\ listCount = 0
    /\ tools = <<>>
    /\ response = <<>>
    /\ idx = 1
    /\ tool_parts = <<>>
    /\ tool_called = FALSE
    /\ calls = <<>>
    /\ completions = <<>>
    /\ outcome = NoOutcome
    /\ lastReq = NoReq

\* the weather server with no call under way
WeatherIdle ==
    /\ API_KEY = <<>>
    /\ wtool = "none"
    /\ city = <<>>
    /\ units = "metric"
    /\ wpc = "idle"
    /\ http_requests = <<>>
    /\ wresult = NoResult

Init ==
    /\ driver \in {"gemini", "github", "api"}
    /\ mainPc = IF driver = "api" THEN "api" ELSE "connect"
    /\ ClientStart
    /\ WeatherIdle

Next ==
    \/ \E o \in ConnectOutcomes : connect_to_server(o)
    \/ cleanup
    \/ \E q \in {Queries[i] : i \in DOMAIN Queries} : process_query_list_tools(q)
    \/ process_query_first_completion
    \/ process_query_part
    \/ process_query_finish
    \/ main_resume

Spec == Init /\ [][Next]_vars

\* one call of a weather tool, for every configured key and every arguments
WeatherInit ==
    /\ driver = "api"
    /\ mainPc = "api"
    /\ ClientStart
    /\ API_KEY \in Strings
    /\ wtool \in WeatherTools
    /\ city \in Strings
    /\ units \in UnitsValues
    /\ wpc = "called"
    /\ http_requests = <<>>
    /\ wresult = NoResult

WeatherNext ==
    \/ weather_checks
    \/ \E o \in HttpOutcomes, payload \in Payloads : weather_response(o, payload)

WeatherSpec == WeatherInit /\ [][WeatherNext]_vars

-----------------------------------------------------------------------------
(* What the claims speak of *)

\* completion call #1 has returned a response
FirstResponded ==
    \/ pc = "scan"
    \/ pc = "done" /\ outcome.stage \notin {"catalog-fetch", "completion-1"}

\* the function-call parts of a response, in the order they appear
FunctionCalls(ps) == SelectSeq(ps, LAMBDA p : p.kind = "function_call")

\* the call_tool request each function-call part asks for
Requested(ps) ==
    [i \in 1..Len(FunctionCalls(ps)) |->
        [name |-> FunctionCalls(ps)[i].name, args |-> FunctionCalls(ps)[i].args]]

IsPrefix(a, b) == Len(a) <= Len(b) /\ a = SubSeq(b, 1, Len(a))

\* the names of a tool list
NamesOf(tl) == { tl[i].name : i \in DOMAIN tl }

-----------------------------------------------------------------------------
(* C1 *)

\* C1: when the first completion response has no function-call part,
\* process_query sends no call_tool, makes no second completion call, and
\* returns the text of the first response.
C1_TextOnlyResponse ==
    (FirstResponded /\ FunctionCalls(response) = <<>>) =>
        /\ calls = <<>>
        /\ Len(completions) = 1
        /\ pc = "done" =>
              outcome = Return([i \in 1..Len(response) |-> response[i].text])

C1_Witness ==
    /\ pc = "done"
    /\ Len(response) = 2
    /\ FunctionCalls(response) = <<>>
    /\ outcome.kind = "return"
    /\ outcome.text = <<"hello", "hello">>

-----------------------------------------------------------------------------
(* C2 *)

\* C2: the call_tool requests of a query are, in order, those of the
\* function-call parts of the first response: never more, never reordered;
\* when the follow-up completion request is sent, and when process_query
\* returns after a response with K >= 1 function calls, all K requests have
\* been sent and each has returned its result.
C2_DispatchInOrder ==
    FirstResponded =>
        /\ IsPrefix(calls, Requested(response))
        /\ (Len(completions) = 2 \/ (pc = "done" /\ outcome.kind = "return")) =>
              /\ calls = Requested(response)
              /\ Len(tool_parts) = Len(FunctionCalls(response))
        /\ (pc = "done" /\ outcome.kind = "return"
              /\ FunctionCalls(response) # <<>>) => Len(completions) = 2

C2_Witness ==
    /\ Len(completions) = 2
    /\ response = << FunctionCallPart("sub"), FunctionCallPart("add") >>
    /\ calls = << [name |-> "sub", args |-> "args"],
                  [name |-> "add", args |-> "args"] >>

-----------------------------------------------------------------------------
(* C3 *)

\* C3: the follow-up completion request has exactly three content entries:
\* the query, the content turn of the first response, and one tool-role
\* turn whose parts are the K tool results, each named after the function
\* dispatched, in dispatch order.
C3_FollowupContents ==
    Len(completions) = 2 =>
        LET contents == completions[2].contents IN
        /\ Len(contents) = 3
        /\ contents[1] = query
        /\ contents[2] = [role |-> "model", parts |-> response]
        /\ contents[3].role = "tool"
        /\ contents[3].parts = tool_parts
        /\ Len(contents[3].parts) = Len(FunctionCalls(response))
        /\ \A i \in DOMAIN calls : contents[3].parts[i].name = calls[i].name

C3_Witness ==
    /\ Len(completions) = 2
    /\ Len(completions[2].contents) = 3
    /\ Len(completions[2].contents[3].parts) = 2
    /\ completions[2].contents[3].parts[1].name = "add"
    /\ completions[2].contents[3].parts[2].name = "sub"
    /\ Len(response) = 2

-----------------------------------------------------------------------------
(* C4 *)

\* C4: a function call whose name is not in the tool list fetched for the
\* query is never sent to the provider, and the query it appears in ends by
\* UnknownToolError without a follow-up completion call.
C4_UnknownToolRejected ==
    FirstResponded =>
        /\ \A i \in DOMAIN calls : calls[i].name \in NamesOf(listed)
        /\ (pc = "done" /\ \E i \in DOMAIN response :
                              /\ response[i].kind = "function_call"
                              /\ response[i].name \notin NamesOf(listed)) =>
              /\ outcome.kind = "raise"
              /\ outcome.exc = "UnknownToolError"
              /\ Len(completions) = 1

-----------------------------------------------------------------------------
(* C5 *)

\* C5: a tool invocation that fails (call_tool raises, or its result is an
\* error result) ends the query by ToolInvocationError: the error result is
\* never made a tool part for the model, and nothing but ToolInvocationError
\* leaves the dispatch stage.
C5_ToolFailureIsFatal ==
    /\ \A i \in DOMAIN tool_parts : tool_parts[i].result # ResultText("isError")
    /\ (pc = "done" /\ outcome.stage = "tool-dispatch") =>
          outcome.exc = "ToolInvocationError"

-----------------------------------------------------------------------------
(* C6 *)

\* every context connect entered has been exited
AllReleased ==
    /\ exit_stack = <<>>
    /\ \A i \in DOMAIN relCount : relCount[i] >= 1

\* C6: when main() of either script has ended after connect succeeded, be it
\* by returning or by an exception of process_query, cleanup has released
\* the session and the transport.
C6_CleanupOnEveryExit ==
    (driver \in {"gemini", "github"} /\ mainPc \in {"exit", "raised_query"})
        => AllReleased

-----------------------------------------------------------------------------
(* C7 *)

\* a context is either still on the exit stack, once, and not exited, or off
\* the stack and exited exactly once
TrackedOrReleasedOnce ==
    \A i \in DOMAIN opened :
        LET onStack == Cardinality({k \in DOMAIN exit_stack : exit_stack[k] = i})
        IN \/ onStack = 1 /\ relCount[i] = 0
           \/ onStack = 0 /\ relCount[i] = 1

\* C7: over any sequence of connect and cleanup calls, no context connect
\* entered is exited twice, and when a cleanup has run every context entered
\* so far has been exited exactly once.
C7_ReleasedExactlyOnce ==
    /\ [](Len(relCount) = Len(opened) /\ TrackedOrReleasedOnce)
    /\ [][cleanup => \A i \in DOMAIN opened' : relCount'[i] = 1]_vars

\* two connects, the second failing in initialize(), then a cleanup
C7_Witness ==
    /\ driver = "api"
    /\ opened = <<"transport", "session", "transport", "session">>
    /\ initialized = {2}
    /\ session = 4
    /\ relCount = <<1, 1, 1, 1>>
    /\ exit_stack = <<>>

-----------------------------------------------------------------------------
(* C8 *)

\* C8: every list_tools and call_tool request is put on a session whose
\* initialize() has returned.
C8_HandshakeBeforeRequests ==
    lastReq.op # "none" => lastReq.initialized

-----------------------------------------------------------------------------
(* C9 *)

\* get_gemini_tools has returned in this query
CatalogFetched ==
    \/ pc \in {"completion1", "scan"}
    \/ pc = "done" /\ outcome.stage # "catalog-fetch"

\* C9: get_gemini_tools turns the N descriptors the provider returned into N
\* function declarations, the i-th with the name, description and input
\* schema of the i-th descriptor.
C9_OneDeclarationPerTool ==
    CatalogFetched =>
        /\ Len(tools) = 1
        /\ LET decls == tools[1].function_declarations IN
           /\ Len(decls) = Len(listed)
           /\ \A i \in DOMAIN listed :
                 /\ decls[i].name = listed[i].name
                 /\ decls[i].description = listed[i].description
                 /\ decls[i].parameters = listed[i].inputSchema

\* a list that names the same tool twice: both entries are declared
C9_Witness ==
    /\ pc = "completion1"
    /\ Len(listed) = 2
    /\ listed[1].name = listed[2].name
    /\ Len(tools[1].function_declarations) = 2

-----------------------------------------------------------------------------
(* C10 *)

\* C10: a query sends one list_tools request, before completion call #1, and
\* the declarations of completion call #1 are those of the reply to it.
C10_OneListToolsPerQuery ==
    /\ listCount <= 1
    /\ CatalogFetched => listCount = 1
    /\ Len(completions) >= 1 =>
          /\ listCount = 1
          /\ completions[1].tools =
                << [function_declarations |->
                      [i \in DOMAIN listed |->
                          [name |-> listed[i].name,
                           description |-> listed[i].description,
                           parameters |-> listed[i].inputSchema]]] >>
          /\ completions[1].contents = <<query>>

\* a second query of the same client whose list differs from an earlier one
C10_Witness ==
    /\ driver = "github"
    /\ qi = 2
    /\ pc = "scan"
    /\ listCount = 1
    /\ Len(listed) = 2
    /\ completions[1].tools[1].function_declarations[2].name = "sub"

-----------------------------------------------------------------------------
(* C11 *)

\* an exception leaves process_query at the stage that raised it: what the
\* later stages would have sent was not sent
RaisedAbortsAtStage ==
    (pc = "done" /\ outcome.kind = "raise") =>
        CASE outcome.stage = "catalog-fetch" ->
               completions = <<>> /\ calls = <<>>
          [] outcome.stage = "completion-1" ->
               Len(completions) = 1 /\ calls = <<>>
          [] outcome.stage = "tool-dispatch" ->
               /\ Len(completions) = 1
               /\ calls # <<>>
               /\ Len(tool_parts) = Len(calls) - 1
          [] outcome.stage = "completion-2" ->
               Len(completions) = 2
          [] OTHER -> FALSE

\* no request is sent again: one list_tools, at most two completion calls
NothingRetried == listCount <= 1 /\ Len(completions) <= 2

\* C11: a failure at any stage of process_query ends the query at that stage
\* and nothing is retried; for a tool dispatch that fails by an error
\* result this means no later call_tool and no second completion call
\* follow it.
C11_NoErrorSwallowed ==
    /\ RaisedAbortsAtStage
    /\ NothingRetried
    /\ \A i \in DOMAIN tool_parts :
          tool_parts[i].result = ResultText("isError") =>
              /\ Len(calls) = i
              /\ Len(completions) < 2

-----------------------------------------------------------------------------
(* C12 *)

\* C12: no list_tools or call_tool request is put on a session that cleanup
\* has released.
C12_NoUseAfterTeardown ==
    lastReq.op # "none" => ~lastReq.released

-----------------------------------------------------------------------------
(* C13 *)

\* the string has no character other than blanks
IsBlank(str) == \A i \in DOMAIN str : str[i] = " "

\* C13: get_current_weather and get_forecast send an HTTP request only when
\* the city is not blank, the API key is not blank and units is metric or
\* imperial; otherwise they return the error string of the first of these
\* checks that fails, in that order; and whatever the HTTP exchange does,
\* they return a string and no exception leaves them.
C13_WeatherToolsReturnStrings ==
    /\ wpc # "raised"
    /\ wresult.type \in {"none", "str"}
    /\ wpc = "returned" => wresult.type = "str"
    /\ http_requests # <<>> =>
          /\ Len(http_requests) = 1
          /\ ~IsBlank(city)
          /\ ~IsBlank(API_KEY)
          /\ units \in {"metric", "imperial"}
    /\ wpc \in {"requesting", "returned"} =>
          CASE IsBlank(city) ->
                 /\ http_requests = <<>>
                 /\ wresult = Str("Error: City name is required", <<>>)
            [] IsBlank(API_KEY) ->
                 /\ http_requests = <<>>
                 /\ wresult = Str("Error: OPENWEATHER_API_KEY not configured. Please set it in Docker secrets.", <<>>)
            [] units \notin {"metric", "imperial"} ->
                 /\ http_requests = <<>>
                 /\ wresult = Str("Error: Units must be 'metric' (Celsius) or 'imperial' (Fahrenheit)", <<>>)
            [] OTHER ->
                 http_requests = << [path |-> IF wtool = "get_forecast"
                                              THEN "/forecast" ELSE "/weather",
                                     q |-> city, appid |-> API_KEY,
                                     units |-> units] >>

\* a forecast call whose request failed on the network: a string comes back
C13_Witness ==
    /\ wtool = "get_forecast"
    /\ city = <<" ", "x">>
    /\ units = "imperial"
    /\ Len(http_requests) = 1
    /\ wpc = "returned"
    /\ wresult = Str("Error: ", <<"ConnectError">>)

=============================================================================
